---- MODULE Spec2Model ----
(***************************************************************************)
(* Runs test above/below the mean (src/script.py).                         *)
(*                                                                         *)
(* Numbers.  Python floats are modelled as exact numbers:                  *)
(*   - a rational is a record [num, den], den > 0, in lowest terms, so     *)
(*     that record equality is numeric equality;                           *)
(*   - the result of math.sqrt and of a division by it is a "surd"         *)
(*     [sgn, sq]: the real number sgn * sqrt(sq), sq a rational >= 0.      *)
(* Floating-point rounding is not modelled.                                *)
(*                                                                         *)
(* A Python call is modelled by its outcome: Return(v) or Raise(e).        *)
(***************************************************************************)
EXTENDS Integers, Sequences, FiniteSets, TLC

VARIABLES
    call,        \* the engine call being made: [op, args]
    ret,         \* its outcome: Pending, Return(v) or Raise(e)
    data_input,  \* #data-input.value: a sequence of characters
    alpha_raw,   \* #alpha-input.value: a sequence of characters
    results,     \* what the #results section presents: Hidden or Shown(result, data)
    alert        \* the message of the last alert(), "" when none was raised

vars == <<call, ret, data_input, alpha_raw, results, alert>>

(***************************************************************************)
(* Bounds of the model                                                     *)
(***************************************************************************)
MaxLen == 8        \* longest sample over CoreValues
MaxWideLen == 5    \* longest sample over WideValues
MaxCount == 4      \* largest n0, n1 handed to the calculator directly
MaxDataLen == 4    \* longest text typed into #data-input
MaxAlphaLen == 3   \* longest text typed into #alpha-input

(***************************************************************************)
(* Exact arithmetic                                                        *)
(***************************************************************************)
Abs(i) == IF i < 0 THEN -i ELSE i

Sign(i) == IF i < 0 THEN -1 ELSE IF i = 0 THEN 0 ELSE 1

RECURSIVE GCD(_, _)
GCD(a, b) == IF b = 0 THEN a ELSE GCD(b, a % b)

\* the rational n/d (d # 0) in lowest terms with a positive denominator
Rat(n, d) ==
    LET g == GCD(Abs(n), Abs(d))
        s == IF d < 0 THEN -1 ELSE 1
    IN  [num |-> (s * n) \div g, den |-> Abs(d) \div g]

RatOfInt(i) == [num |-> i, den |-> 1]

RatAdd(a, b) == Rat(a.num * b.den + b.num * a.den, a.den * b.den)

RatSub(a, b) == Rat(a.num * b.den - b.num * a.den, a.den * b.den)

RatMul(a, b) == Rat(a.num * b.num, a.den * b.den)

\* a / b for b # 0
RatDiv(a, b) == Rat(a.num * b.den, a.den * b.num)

RatLt(a, b) == a.num * b.den < b.num * a.den

\* a/b <= c/d for a, c >= 0 and b, d > 0, by continued-fraction expansion
\* (no product of the four numbers is formed)
RECURSIVE FracLeq(_, _, _, _)
FracLeq(a, b, c, d) ==
    LET ia == a \div b
        ic == c \div d
        ra == a % b
        rc == c % d
    IN  IF ia # ic THEN ia < ic
        ELSE IF ra = 0 THEN TRUE
        ELSE IF rc = 0 THEN FALSE
        ELSE FracLeq(d, rc, b, ra)

SurdZero == [sgn |-> 0, sq |-> RatOfInt(0)]

SurdOfRat(r) == [sgn |-> Sign(r.num), sq |-> RatMul(r, r)]

\* abs(x) of a surd
SurdAbs(z) == [sgn |-> Abs(z.sgn), sq |-> z.sq]

\* x <= y of two surds
SurdLeq(x, y) ==
    IF x.sgn # y.sgn THEN x.sgn < y.sgn
    ELSE IF x.sgn = 0 THEN TRUE
    ELSE IF x.sgn = 1 THEN FracLeq(x.sq.num, x.sq.den, y.sq.num, y.sq.den)
    ELSE FracLeq(y.sq.num, y.sq.den, x.sq.num, x.sq.den)

(***************************************************************************)
(* Outcomes of a Python call                                               *)
(***************************************************************************)
Pending == [raised |-> "Pending", value |-> <<>>]

Return(v) == [raised |-> "None", value |-> v]

Raise(e) == [raised |-> e, value |-> <<>>]

Returned(r) == r.raised = "None"

\* int / int and float / float: ZeroDivisionError on a zero divisor
PyDiv(a, b) ==
    IF b.num = 0 THEN Raise("ZeroDivisionError") ELSE Return(RatDiv(a, b))

\* math.sqrt: ValueError (math domain error) below zero
math_sqrt(x) ==
    IF x.num < 0 THEN Raise("ValueError")
    ELSE Return([sgn |-> Sign(x.num), sq |-> x])

\* rational / surd
PyDivSurd(a, s) ==
    IF s.sgn = 0 THEN Raise("ZeroDivisionError")
    ELSE Return([sgn |-> Sign(a.num), sq |-> RatDiv(RatMul(a, a), s.sq)])

(***************************************************************************)
(* SequenceGenerator                                                       *)
(***************************************************************************)
THRESHOLD == Rat(1, 2)

\* generate with the comparison `value <= THRESHOLD`
generate_closed_below(data) ==
    [i \in 1..Len(data) |-> IF ~RatLt(THRESHOLD, data[i]) THEN 0 ELSE 1]

generate(data) ==
    [i \in 1..Len(data) |-> IF RatLt(data[i], THRESHOLD) THEN 0 ELSE 1]

(***************************************************************************)
(* RunsCounter                                                             *)
(***************************************************************************)
\* the body of `for i in range(1, len(sequence))`, positions numbered from 1
RECURSIVE CountLoop(_, _, _)
CountLoop(sequence, i, runs) ==
    IF i > Len(sequence) THEN runs
    ELSE CountLoop(sequence, i + 1,
                   IF sequence[i] # sequence[i - 1] THEN runs + 1 ELSE runs)

\* count with the scan started one position late: range(2, len(sequence))
count_late_start(sequence) ==
    IF sequence = <<>> THEN 0 ELSE CountLoop(sequence, 3, 1)

count(sequence) ==
    IF sequence = <<>> THEN 0 ELSE CountLoop(sequence, 2, 1)

\* list.count(x)
ListCount(sequence, x) ==
    Cardinality({i \in 1..Len(sequence) : sequence[i] = x})

\* count_values with both totals counting the symbol 0
count_values_same_symbol(sequence) ==
    [n0 |-> ListCount(sequence, 0), n1 |-> ListCount(sequence, 0)]

count_values(sequence) ==
    [n0 |-> ListCount(sequence, 0), n1 |-> ListCount(sequence, 1)]

(***************************************************************************)
(* StatisticsCalculator                                                    *)
(***************************************************************************)
\* calculate_expected_runs without the + 0.5 term
calculate_expected_runs_no_half(n0, n1, n) ==
    PyDiv(RatOfInt(2 * n0 * n1), RatOfInt(n))

calculate_expected_runs(n0, n1, n) ==
    LET q == PyDiv(RatOfInt(2 * n0 * n1), RatOfInt(n))
    IN  IF Returned(q) THEN Return(RatAdd(q.value, Rat(1, 2))) ELSE q

\* calculate_variance with the factor written n - 2*n0*n1
calculate_variance_flipped(n0, n1, n) ==
    IF n <= 1 THEN Return(RatOfInt(0))
    ELSE LET numerator == 2 * n0 * n1 * (n - 2 * n0 * n1)
             denominator == n * n * (n - 1)
         IN  IF denominator # 0
             THEN PyDiv(RatOfInt(numerator), RatOfInt(denominator))
             ELSE Return(RatOfInt(0))

calculate_variance(n0, n1, n) ==
    IF n <= 1 THEN Return(RatOfInt(0))
    ELSE LET numerator == 2 * n0 * n1 * (2 * n0 * n1 - n)
             denominator == n * n * (n - 1)
         IN  IF denominator # 0
             THEN PyDiv(RatOfInt(numerator), RatOfInt(denominator))
             ELSE Return(RatOfInt(0))

\* calculate_z_statistic with the guard `variance < 0`
calculate_z_statistic_strict_guard(c0, mu_c0, variance) ==
    IF variance.num < 0 THEN Return(SurdZero)
    ELSE LET sigma_c0 == math_sqrt(variance)
         IN  IF Returned(sigma_c0)
             THEN PyDivSurd(RatSub(RatOfInt(c0), mu_c0), sigma_c0.value)
             ELSE sigma_c0

calculate_z_statistic(c0, mu_c0, variance) ==
    IF variance.num <= 0 THEN Return(SurdZero)
    ELSE LET sigma_c0 == math_sqrt(variance)
         IN  IF Returned(sigma_c0)
             THEN PyDivSurd(RatSub(RatOfInt(c0), mu_c0), sigma_c0.value)
             ELSE sigma_c0

(***************************************************************************)
(* CriticalValueProvider                                                   *)
(***************************************************************************)
Z_TABLE ==
    (Rat(1, 100) :> Rat(2576, 1000)) @@
    (Rat(5, 100) :> Rat(196, 100)) @@
    (Rat(10, 100) :> Rat(1645, 1000))

DEFAULT_ALPHA == Rat(5, 100)

\* get_critical_value falling back to the first entry of the table
get_critical_value_first_entry(alpha) ==
    IF alpha \in DOMAIN Z_TABLE THEN Z_TABLE[alpha] ELSE Z_TABLE[Rat(1, 100)]

\* dict.get(alpha, default)
get_critical_value(alpha) ==
    IF alpha \in DOMAIN Z_TABLE THEN Z_TABLE[alpha] ELSE Z_TABLE[DEFAULT_ALPHA]

(***************************************************************************)
(* HypothesisValidator                                                     *)
(***************************************************************************)
\* validate with the comparison `abs(z0) < z_critical`
validate_strict(z0, z_critical) ==
    /\ SurdLeq(SurdAbs(z0), SurdOfRat(z_critical))
    /\ SurdAbs(z0) # SurdOfRat(z_critical)

validate(z0, z_critical) == SurdLeq(SurdAbs(z0), SurdOfRat(z_critical))

(***************************************************************************)
(* RunsTestService                                                         *)
(***************************************************************************)
RunsTestResult(sequence, c0, n0, n1, n, mu_c0, variance, sigma_c0, z0, z_critical, is_independent, alpha, confidence) ==
    [sequence |-> sequence, c0 |-> c0, n0 |-> n0, n1 |-> n1, n |-> n,
     mu_c0 |-> mu_c0, variance |-> variance, sigma_c0 |-> sigma_c0,
     z0 |-> z0, z_critical |-> z_critical,
     is_independent |-> is_independent, alpha |-> alpha,
     confidence |-> confidence]

execute(data, alpha) ==
    LET sequence == generate(data)
        c0 == count(sequence)
        nv == count_values(sequence)
        n == Len(data)
        mu_c0 == calculate_expected_runs(nv.n0, nv.n1, n)
        variance == calculate_variance(nv.n0, nv.n1, n)
        sigma_c0 == IF variance.value.num > 0 THEN math_sqrt(variance.value)
                    ELSE Return(SurdZero)
        z0 == calculate_z_statistic(c0, mu_c0.value, variance.value)
        z_critical == get_critical_value(alpha)
        is_independent == validate(z0.value, z_critical)
    IN  IF ~Returned(mu_c0) THEN mu_c0
        ELSE IF ~Returned(variance) THEN variance
        ELSE IF ~Returned(sigma_c0) THEN sigma_c0
        ELSE IF ~Returned(z0) THEN z0
        ELSE Return(RunsTestResult(
                 sequence, c0, nv.n0, nv.n1, n, mu_c0.value, variance.value,
                 sigma_c0.value, z0.value, z_critical, is_independent, alpha,
                 RatMul(RatSub(RatOfInt(1), alpha), RatOfInt(100))))

\* execute(data): the parameter's default value
EXECUTE_DEFAULT_ALPHA == Rat(5, 100)

(***************************************************************************)
(* Inputs of the engine                                                    *)
(***************************************************************************)
SeqsUpTo(S, k) == UNION {[1..m -> S] : m \in 0..k}

\* values on both sides of the threshold and on it
CoreValues == {Rat(1, 10), Rat(1, 2), Rat(9, 10)}

WideValues == {Rat(1, 10), Rat(9, 10), Rat(2, 10), Rat(8, 10), Rat(3, 10)}

Samples == SeqsUpTo(CoreValues, MaxLen) \cup SeqsUpTo(WideValues, MaxWideLen)

BinarySeqs == SeqsUpTo({0, 1}, MaxLen)

\* the three levels of the table and two that are not in it
Alphas == {Rat(1, 100), Rat(5, 100), Rat(10, 100), Rat(3, 100), Rat(2, 100)}

Counts == 0..MaxCount

Sizes == -1..(2 * MaxCount)

MuInputs == {Rat(1, 2), Rat(5, 2), Rat(29, 10)}

VarianceInputs == {Rat(-1, 4), RatOfInt(0), Rat(1, 4), Rat(21, 25)}

CriticalInputs == {Z_TABLE[a] : a \in DOMAIN Z_TABLE}

\* the critical values themselves, their negatives and their neighbours
ZInputs ==
    {SurdOfRat(r) : r \in
        CriticalInputs
        \cup {RatSub(RatOfInt(0), c) : c \in CriticalInputs}
        \cup {RatOfInt(0), Rat(1959, 1000), Rat(1961, 1000),
              Rat(-1959, 1000), Rat(-1961, 1000), RatOfInt(3), RatOfInt(-3)}}

Op(name, args) == [op |-> name, args |-> args]

NoCall == Op("none", <<>>)

\* the calls made on the engine, each with its arguments
CallInputs ==
    \/ \E d \in Samples : call = Op("generate", [data |-> d])
    \/ \E s \in BinarySeqs : call = Op("count", [sequence |-> s])
    \/ \E s \in BinarySeqs : call = Op("count_values", [sequence |-> s])
    \/ \E a \in Counts, b \in Counts, c \in Sizes :
          call = Op("calculate_expected_runs", [n0 |-> a, n1 |-> b, n |-> c])
    \/ \E a \in Counts, b \in Counts, c \in Sizes :
          call = Op("calculate_variance", [n0 |-> a, n1 |-> b, n |-> c])
    \/ \E c \in Counts, m \in MuInputs, v \in VarianceInputs :
          call = Op("calculate_z_statistic",
                    [c0 |-> c, mu_c0 |-> m, variance |-> v])
    \/ \E a \in Alphas : call = Op("get_critical_value", [alpha |-> a])
    \/ \E z \in ZInputs, c \in CriticalInputs :
          call = Op("validate", [z0 |-> z, z_critical |-> c])
    \/ \E d \in Samples, a \in Alphas :
          call = Op("execute", [data |-> d, alpha |-> a])
    \/ \E d \in SeqsUpTo(CoreValues, 2) :
          call = Op("execute_default", [data |-> d])

Hidden == [shown |-> FALSE]

(***************************************************************************)
(* The engine called directly: one call, then its outcome                  *)
(***************************************************************************)
Init ==
    /\ CallInputs
    /\ ret = Pending
    /\ data_input = <<>>
    /\ alpha_raw = <<>>
    /\ results = Hidden
    /\ alert = ""

Calling(name) == call.op = name /\ ret.raised = "Pending"

UIUnchanged == UNCHANGED <<call, data_input, alpha_raw, results, alert>>

Generate ==
    /\ Calling("generate")
    /\ ret' = Return(generate(call.args.data))
    /\ UIUnchanged

Count ==
    /\ Calling("count")
    /\ ret' = Return(count(call.args.sequence))
    /\ UIUnchanged

CountValues ==
    /\ Calling("count_values")
    /\ ret' = Return(count_values(call.args.sequence))
    /\ UIUnchanged

CalculateExpectedRuns ==
    /\ Calling("calculate_expected_runs")
    /\ ret' = calculate_expected_runs(call.args.n0, call.args.n1, call.args.n)
    /\ UIUnchanged

CalculateVariance ==
    /\ Calling("calculate_variance")
    /\ ret' = calculate_variance(call.args.n0, call.args.n1, call.args.n)
    /\ UIUnchanged

CalculateZStatistic ==
    /\ Calling("calculate_z_statistic")
    /\ ret' = calculate_z_statistic(call.args.c0, call.args.mu_c0,
                                    call.args.variance)
    /\ UIUnchanged

GetCriticalValue ==
    /\ Calling("get_critical_value")
    /\ ret' = Return(get_critical_value(call.args.alpha))
    /\ UIUnchanged

Validate ==
    /\ Calling("validate")
    /\ ret' = Return(validate(call.args.z0, call.args.z_critical))
    /\ UIUnchanged

Execute ==
    /\ Calling("execute")
    /\ ret' = execute(call.args.data, call.args.alpha)
    /\ UIUnchanged

ExecuteDefault ==
    /\ Calling("execute_default")
    /\ ret' = execute(call.args.data, EXECUTE_DEFAULT_ALPHA)
    /\ UIUnchanged

Next ==
    \/ Generate
    \/ Count
    \/ CountValues
    \/ CalculateExpectedRuns
    \/ CalculateVariance
    \/ CalculateZStatistic
    \/ GetCriticalValue
    \/ Validate
    \/ Execute
    \/ ExecuteDefault

Spec == Init /\ [][Next]_vars

(***************************************************************************)
(* Text: a string is a sequence of one-character strings                   *)
(***************************************************************************)
DigitValue ==
    ("0" :> 0) @@ ("1" :> 1) @@ ("2" :> 2) @@ ("3" :> 3) @@ ("4" :> 4) @@
    ("5" :> 5) @@ ("6" :> 6) @@ ("7" :> 7) @@ ("8" :> 8) @@ ("9" :> 9)

DigitChar == <<"0", "1", "2", "3", "4", "5", "6", "7", "8", "9">>

RECURSIVE Pow10(_)
Pow10(k) == IF k = 0 THEN 1 ELSE 10 * Pow10(k - 1)

\* str.replace(old, new) for one-character old and new
StrReplace(text, old, new) ==
    [i \in 1..Len(text) |-> IF text[i] = old THEN new ELSE text[i]]

\* str.split(): the maximal blocks of non-blank characters, in order
RECURSIVE SplitFrom(_, _, _, _)
SplitFrom(text, i, word, words) ==
    IF i > Len(text)
    THEN IF word = <<>> THEN words ELSE Append(words, word)
    ELSE IF text[i] = " "
    THEN SplitFrom(text, i + 1, <<>>,
                   IF word = <<>> THEN words ELSE Append(words, word))
    ELSE SplitFrom(text, i + 1, Append(word, text[i]), words)

StrSplit(text) == SplitFrom(text, 1, <<>>, <<>>)

\* the number written by a sequence of digits
RECURSIVE DigitsValue(_)
DigitsValue(digits) ==
    IF digits = <<>> THEN 0
    ELSE 10 * DigitsValue(SubSeq(digits, 1, Len(digits) - 1))
         + DigitValue[digits[Len(digits)]]

\* float(x) of a text of digits, "." and a leading "-": ValueError unless it
\* is [-]digits[.digits] or [-].digits with at least one digit
PyFloat(x) ==
    LET negative == Len(x) > 0 /\ x[1] = "-"
        body == IF negative THEN SubSeq(x, 2, Len(x)) ELSE x
        dots == {i \in 1..Len(body) : body[i] = "."}
        digits == SelectSeq(body, LAMBDA c : c # ".")
        decimals == IF dots = {} THEN 0
                    ELSE Len(body) - (CHOOSE i \in dots : TRUE)
        magnitude == Rat(DigitsValue(digits), Pow10(decimals))
    IN  IF \/ Cardinality(dots) > 1
           \/ digits = <<>>
           \/ \E i \in 1..Len(digits) : digits[i] \notin DOMAIN DigitValue
        THEN Raise("ValueError")
        ELSE Return(IF negative THEN RatSub(RatOfInt(0), magnitude)
                    ELSE magnitude)

\* f"{v:.{decimals}f}" of a rational v >= 0 that is no rounding tie
RECURSIVE DigitsOf(_, _)
DigitsOf(k, width) ==
    IF width = 0 THEN <<>>
    ELSE Append(DigitsOf(k \div 10, width - 1), DigitChar[(k % 10) + 1])

RECURSIVE IntDigits(_)
IntDigits(k) ==
    IF k < 10 THEN <<DigitChar[k + 1]>>
    ELSE Append(IntDigits(k \div 10), DigitChar[(k % 10) + 1])

FormatFixed(v, decimals) ==
    LET scale == Pow10(decimals)
        q == (2 * v.num * scale + v.den) \div (2 * v.den)
    IN  IntDigits(q \div scale)
        \o (IF decimals = 0 THEN <<>>
            ELSE <<".">> \o DigitsOf(q % scale, decimals))

\* ", ".join(words)
RECURSIVE JoinCommaSpace(_)
JoinCommaSpace(words) ==
    IF words = <<>> THEN <<>>
    ELSE IF Len(words) = 1 THEN words[1]
    ELSE words[1] \o <<",", " ">> \o JoinCommaSpace(Tail(words))

(***************************************************************************)
(* DataParser                                                              *)
(***************************************************************************)
parse(text) ==
    LET data_str == StrSplit(StrReplace(text, ",", " "))
        floats == [i \in 1..Len(data_str) |-> PyFloat(data_str[i])]
    IN  IF \E i \in 1..Len(floats) : ~Returned(floats[i])
        THEN Raise("ValueError")
        ELSE IF floats = <<>> THEN Raise("ValueError")
        ELSE Return([i \in 1..Len(floats) |-> floats[i].value])

(***************************************************************************)
(* ResultsPresenter                                                        *)
(***************************************************************************)
\* the #results section shown, rendering the result and the input data
present_all(result, data) == [shown |-> TRUE, result |-> result, data |-> data]

(***************************************************************************)
(* UIController                                                            *)
(***************************************************************************)
AlphaRangeMessage == "El nivel de significancia debe estar entre 0 y 1"

DataErrorMessage == "Error en los datos"

UnexpectedErrorMessage == "Error inesperado"

GenerateErrorMessage == "No se pudieron generar los datos"

CountErrorMessage == "La cantidad debe ser mayor que 0"

DecimalsErrorMessage == "Los decimales deben estar entre 0 y 10"

\* the message of the except clause that catches exception e
ExceptMessage(e) ==
    IF e = "ValueError" THEN DataErrorMessage ELSE UnexpectedErrorMessage

\* float(alpha_raw.replace(',', '.')) if alpha_raw else 0.05
alpha_input(raw) ==
    IF raw = <<>> THEN Return(Rat(5, 100))
    ELSE PyFloat(StrReplace(raw, ",", "."))

\* 0 < alpha_input < 1
AlphaInRange(alpha) == 0 < alpha.num /\ alpha.num < alpha.den

\* handle_test_execution with the range check written 0 <= alpha <= 1
handle_test_execution_closed_range(text, raw) ==
    LET alpha == alpha_input(raw)
        data == parse(text)
        result == execute(data.value, alpha.value)
        Failed(message) ==
            [alert |-> message, executed |-> FALSE, presented |-> FALSE]
    IN  IF ~Returned(alpha) THEN Failed(ExceptMessage(alpha.raised))
        ELSE IF ~(0 <= alpha.value.num /\ alpha.value.num <= alpha.value.den)
        THEN Failed(AlphaRangeMessage)
        ELSE IF ~Returned(data) THEN Failed(ExceptMessage(data.raised))
        ELSE IF ~Returned(result)
        THEN [alert |-> ExceptMessage(result.raised), executed |-> TRUE,
              presented |-> FALSE,
              call |-> Op("execute", [data |-> data.value, alpha |-> alpha.value]),
              ret |-> result]
        ELSE [alert |-> "", executed |-> TRUE, presented |-> TRUE,
              call |-> Op("execute", [data |-> data.value, alpha |-> alpha.value]),
              ret |-> result,
              results |-> present_all(result.value, data.value)]

\* The outcome of handle_test_execution on the two input fields:
\* the alert it raises ("" for none), whether it calls execute and with what,
\* and what it presents.
handle_test_execution(text, raw) ==
    LET alpha == alpha_input(raw)
        data == parse(text)
        result == execute(data.value, alpha.value)
        Failed(message) ==
            [alert |-> message, executed |-> FALSE, presented |-> FALSE]
    IN  IF ~Returned(alpha) THEN Failed(ExceptMessage(alpha.raised))
        ELSE IF ~AlphaInRange(alpha.value) THEN Failed(AlphaRangeMessage)
        ELSE IF ~Returned(data) THEN Failed(ExceptMessage(data.raised))
        ELSE IF ~Returned(result)
        THEN [alert |-> ExceptMessage(result.raised), executed |-> TRUE,
              presented |-> FALSE,
              call |-> Op("execute", [data |-> data.value, alpha |-> alpha.value]),
              ret |-> result]
        ELSE [alert |-> "", executed |-> TRUE, presented |-> TRUE,
              call |-> Op("execute", [data |-> data.value, alpha |-> alpha.value]),
              ret |-> result,
              results |-> present_all(result.value, data.value)]

HandleTestExecution ==
    LET out == handle_test_execution(data_input, alpha_raw)
    IN  /\ alert' = out.alert
        /\ IF out.executed
           THEN call' = out.call /\ ret' = out.ret
           ELSE UNCHANGED <<call, ret>>
        /\ IF out.presented
           THEN results' = out.results
           ELSE UNCHANGED results
        /\ UNCHANGED <<data_input, alpha_raw>>

\* what int() makes of #count-input and #decimals-input
GenCounts == {0, 1}

GenDecimals == {0, 1, 11}

\* the values self._rng.random() may give
RandomValues == {Rat(1, 10), Rat(9, 10)}

HandleGenerateRandom ==
    \/ \* int() raises on one of the two fields
       /\ alert' = GenerateErrorMessage
       /\ UNCHANGED <<call, ret, data_input, alpha_raw, results>>
    \/ \E n \in GenCounts, decimals \in GenDecimals :
        IF n <= 0
        THEN /\ alert' = CountErrorMessage
             /\ UNCHANGED <<call, ret, data_input, alpha_raw, results>>
        ELSE IF decimals < 0 \/ decimals > 10
        THEN /\ alert' = DecimalsErrorMessage
             /\ UNCHANGED <<call, ret, data_input, alpha_raw, results>>
        ELSE \E values \in [1..n -> RandomValues] :
             /\ data_input' = JoinCommaSpace(
                    [i \in 1..n |-> FormatFixed(values[i], decimals)])
             /\ alert' = ""
             /\ UNCHANGED <<call, ret, alpha_raw, results>>

HandleClearFields ==
    /\ data_input' = <<>>
    /\ results' = Hidden
    /\ alert' = ""
    /\ UNCHANGED <<call, ret, alpha_raw>>

(***************************************************************************)
(* The page: the two input fields as typed, then the buttons               *)
(***************************************************************************)
DataChars == {"1", ".", ",", " ", "x"}

AlphaChars == {"0", "5", ".", ",", "x"}

DataTexts == SeqsUpTo(DataChars, MaxDataLen)

AlphaTexts == SeqsUpTo(AlphaChars, MaxAlphaLen)

\* one text of each kind: empty, valid, out of range or unreadable
ProbeAlphaTexts == {<<>>, <<".", "5">>, <<"5">>, <<"x">>}

ProbeDataTexts == {<<>>, <<".", "1">>, <<"1", ",", ".", "1">>, <<"x">>}

InitUI ==
    /\ \/ data_input \in DataTexts /\ alpha_raw \in ProbeAlphaTexts
       \/ data_input \in ProbeDataTexts /\ alpha_raw \in AlphaTexts
    /\ results = Hidden
    /\ alert = ""
    /\ call = NoCall
    /\ ret = Pending

NextUI ==
    \/ HandleTestExecution
    \/ HandleGenerateRandom
    \/ HandleClearFields

SpecUI == InitUI /\ [][NextUI]_vars

(***************************************************************************)
(* Properties of the engine, checked under Spec                            *)
(***************************************************************************)
Done(name) == call.op = name /\ ret.raised # "Pending"

\* value < 0.5, stated on the fraction itself
BelowHalf(v) == 2 * v.num < v.den

\* the maximal blocks of identical consecutive symbols of s, as <<first, last>>
MaximalRuns(s) ==
    {b \in (1..Len(s)) \X (1..Len(s)) :
        /\ b[1] <= b[2]
        /\ \A i \in b[1]..b[2] : s[i] = s[b[1]]
        /\ b[1] = 1 \/ s[b[1] - 1] # s[b[1]]
        /\ b[2] = Len(s) \/ s[b[2] + 1] # s[b[2]]}

\* C1: execute called with an empty sample fails with InvalidInputError, and
\* no Test Result is constructed or returned.
C1_EmptySampleInvalidInput ==
    (Done("execute") /\ Len(call.args.data) = 0) =>
        ret.raised = "InvalidInputError"

\* C2: count returns 0 for an empty sequence, 1 for a single element, and
\* otherwise 1 plus the number of positions whose symbol differs from the
\* previous one, which is the number of maximal runs.
C2_CountIsNumberOfRuns ==
    Done("count") =>
        LET s == call.args.sequence
            changes == {i \in 2..Len(s) : s[i] # s[i - 1]}
        IN  /\ Returned(ret)
            /\ Len(s) = 0 => ret.value = 0
            /\ Len(s) = 1 => ret.value = 1
            /\ Len(s) > 1 => ret.value = 1 + Cardinality(changes)
            /\ ret.value = Cardinality(MaximalRuns(s))

C2_Witness ==
    /\ Done("count")
    /\ Len(call.args.sequence) = 6
    /\ call.args.sequence[1] # call.args.sequence[2]
    /\ ret.value = 4

\* C3: the run counts of every encoded sample satisfy n0 + n1 = n,
\* 1 <= c0 <= n when n > 0, and c0 = 0 exactly when n = 0; the counts that
\* execute reports are these.
C3_RunCountsInvariant ==
    /\ Done("generate") =>
        LET n == Len(call.args.data)
            c0 == count(ret.value)
            nv == count_values(ret.value)
        IN  /\ nv.n0 + nv.n1 = n
            /\ n > 0 => (1 <= c0 /\ c0 <= n)
            /\ c0 = 0 <=> n = 0
    /\ Done("count_values") =>
        ret.value.n0 + ret.value.n1 = Len(call.args.sequence)
    /\ (Done("execute") /\ Returned(ret)) =>
        /\ ret.value.n = Len(call.args.data)
        /\ ret.value.n0 + ret.value.n1 = ret.value.n
        /\ 1 <= ret.value.c0 /\ ret.value.c0 <= ret.value.n

C3_Witness ==
    /\ Done("execute") /\ Returned(ret)
    /\ ret.value.n0 = 3 /\ ret.value.n1 = 4 /\ ret.value.c0 = 5

\* C4: generate returns a sequence of the input's length whose position i is
\* 0 if input[i] < 0.5 and 1 otherwise; 0.5 itself is encoded as 1, every
\* symbol is 0 or 1, and an empty input gives an empty output.
C4_GenerateEncodes ==
    Done("generate") =>
        LET data == call.args.data
        IN  /\ Returned(ret)
            /\ Len(ret.value) = Len(data)
            /\ \A i \in 1..Len(data) :
                /\ ret.value[i] \in {0, 1}
                /\ ret.value[i] = 0 <=> BelowHalf(data[i])
                /\ data[i] = Rat(1, 2) => ret.value[i] = 1
            /\ data = <<>> => ret.value = <<>>

C4_Witness ==
    /\ Done("generate")
    /\ Len(call.args.data) = 3
    /\ call.args.data[1] = Rat(1, 2)
    /\ call.args.data[2] = Rat(1, 10)
    /\ ret.value = <<1, 0, 1>>

\* C5: get_critical_value returns 2.576 for alpha 0.01, 1.96 for 0.05, 1.645
\* for 0.10 and, without failing, 1.96 for every other alpha.
C5_CriticalValueTable ==
    Done("get_critical_value") =>
        LET alpha == call.args.alpha
        IN  /\ Returned(ret)
            /\ alpha = Rat(1, 100) => ret.value = Rat(2576, 1000)
            /\ alpha = Rat(5, 100) => ret.value = Rat(196, 100)
            /\ alpha = Rat(10, 100) => ret.value = Rat(1645, 1000)
            /\ alpha \notin {Rat(1, 100), Rat(5, 100), Rat(10, 100)} =>
                ret.value = Rat(196, 100)

C5_Witness ==
    /\ Done("get_critical_value")
    /\ call.args.alpha = Rat(3, 100)
    /\ ret.value = Rat(196, 100)

\* -z_critical <= z0 <= z_critical
WithinCritical(z0, z_critical) ==
    /\ SurdLeq(z0, SurdOfRat(z_critical))
    /\ SurdLeq(SurdOfRat(RatSub(RatOfInt(0), z_critical)), z0)

\* C6: the verdict is true iff |Z0| <= Z_critical, the boundary included
\* (Z0 equal to Z_critical or to -Z_critical gives true), and the
\* is_independent of every result of execute is this comparison of the
\* result's own z0 and z_critical.
C6_VerdictIsComparison ==
    /\ Done("validate") =>
        LET z0 == call.args.z0
            z_critical == call.args.z_critical
        IN  /\ Returned(ret)
            /\ ret.value = WithinCritical(z0, z_critical)
            /\ z0.sq = RatMul(z_critical, z_critical) => ret.value = TRUE
    /\ (Done("execute") /\ Returned(ret)) =>
        ret.value.is_independent =
            WithinCritical(ret.value.z0, ret.value.z_critical)

C6_Witness ==
    /\ Done("validate")
    /\ call.args.z_critical = Rat(2576, 1000)
    /\ call.args.z0 = SurdOfRat(Rat(-2576, 1000))
    /\ ret.value = TRUE

\* C7: calculate_variance returns 0 for every n <= 1 whatever n0 and n1 are,
\* and calculate_z_statistic returns 0 for every variance <= 0 whatever c0
\* and mu_c0 are; neither raises.
C7_DegenerateConventions ==
    /\ (Done("calculate_variance") /\ call.args.n <= 1) =>
        ret = Return(RatOfInt(0))
    /\ (Done("calculate_z_statistic") /\ call.args.variance.num <= 0) =>
        ret = Return(SurdZero)

C7_Witness ==
    /\ Done("calculate_z_statistic")
    /\ call.args.variance = RatOfInt(0)
    /\ call.args.c0 = 3
    /\ call.args.mu_c0 = Rat(5, 2)
    /\ ret = Return(SurdZero)

ExampleSample == <<Rat(1, 10), Rat(9, 10), Rat(2, 10), Rat(8, 10), Rat(3, 10)>>

\* C8: for every non-empty sample execute reports
\* mu_c0 = (2*n0*n1)/n + 1/2 and, when n >= 2,
\* variance = [2*n0*n1*(2*n0*n1 - n)] / [n^2*(n-1)], with n0, n1 the numbers
\* of sample values below and not below 0.5; the sample
\* [0.1, 0.9, 0.2, 0.8, 0.3] with alpha 0.05 gives [0,1,0,1,0], c0 = 5,
\* n0 = 3, n1 = 2, mu_c0 = 2.9, variance = 84/100, independence rejected.
C8_ExpectedRunsAndVariance ==
    (Done("execute") /\ Len(call.args.data) > 0) =>
        LET data == call.args.data
            n == Len(data)
            n0 == Cardinality({i \in 1..n : BelowHalf(data[i])})
            n1 == n - n0
            r == ret.value
        IN  /\ Returned(ret)
            /\ r.mu_c0.num * 2 * n = (4 * n0 * n1 + n) * r.mu_c0.den
            /\ n >= 2 =>
                r.variance.num * (n * n * (n - 1)) =
                    2 * n0 * n1 * (2 * n0 * n1 - n) * r.variance.den
            /\ (data = ExampleSample /\ call.args.alpha = Rat(5, 100)) =>
                /\ r.sequence = <<0, 1, 0, 1, 0>>
                /\ r.c0 = 5 /\ r.n0 = 3 /\ r.n1 = 2 /\ r.n = 5
                /\ r.mu_c0 = Rat(29, 10)
                /\ r.variance = Rat(84, 100)
                /\ r.z_critical = Rat(196, 100)
                /\ r.is_independent = FALSE

C8_Witness ==
    /\ Done("execute") /\ Returned(ret)
    /\ call.args.data = ExampleSample
    /\ call.args.alpha = Rat(5, 100)
    /\ ret.value.z0 = [sgn |-> 1, sq |-> Rat(21, 4)]

\* C10: for every non-empty sample whose values all lie on one side of the
\* threshold, and every alpha, execute returns c0 = 1, variance = 0,
\* sigma_c0 = 0, z0 = 0 and is_independent = true; the variance computed from
\* counts with n0 + n1 = n >= 1 is never negative, so execute takes the
\* variance <= 0 branch only with variance 0.
C10_OneSidedSample ==
    /\ (Done("execute") /\ Len(call.args.data) > 0) =>
        LET data == call.args.data
            below == {i \in 1..Len(data) : BelowHalf(data[i])}
            r == ret.value
        IN  /\ Returned(ret)
            /\ r.variance.num >= 0
            /\ (below = {} \/ below = 1..Len(data)) =>
                /\ r.c0 = 1
                /\ r.variance = RatOfInt(0)
                /\ r.sigma_c0 = SurdZero
                /\ r.z0 = SurdZero
                /\ r.is_independent = TRUE
    /\ (/\ Done("calculate_variance")
        /\ call.args.n0 + call.args.n1 = call.args.n
        /\ call.args.n >= 1) =>
        (Returned(ret) /\ ret.value.num >= 0)

C10_Witness ==
    /\ Done("execute") /\ Returned(ret)
    /\ Len(call.args.data) = 4
    /\ \A i \in 1..4 : call.args.data[i] \in {Rat(1, 2), Rat(9, 10)}
    /\ call.args.data[1] # call.args.data[2]
    /\ call.args.alpha = Rat(1, 100)
    /\ ret.value.z0 = SurdZero
    /\ ret.value.is_independent = TRUE

(***************************************************************************)
(* Properties of the calling layer, checked under SpecUI                   *)
(***************************************************************************)
\* the text holds no token that float() reads
NoNumericTokens(text) ==
    LET tokens == StrSplit(StrReplace(text, ",", " "))
    IN  \A i \in 1..Len(tokens) : ~Returned(PyFloat(tokens[i]))

\* the entered significance level is strictly between 0 and 1
\* (an empty field stands for 0.05)
LevelBetween0And1(raw) ==
    \/ raw = <<>>
    \/ LET level == PyFloat(StrReplace(raw, ",", "."))
       IN  Returned(level) /\ 0 < level.value.num
           /\ level.value.num < level.value.den

\* C9: in handle_test_execution validation precedes computation: when the
\* entered significance level is not strictly between 0 and 1, or the data
\* text holds no numeric token, an error is shown, execute is not invoked
\* and no results are presented; every call of execute made through the
\* handler has a non-empty sample and 0 < alpha < 1.
C9_ValidationPrecedesExecution ==
    [][/\ (/\ HandleTestExecution
           /\ ~LevelBetween0And1(alpha_raw) \/ NoNumericTokens(data_input)) =>
              /\ alert' # ""
              /\ UNCHANGED <<call, ret, results>>
       /\ call'.op = "execute" =>
              /\ Len(call'.args.data) > 0
              /\ 0 < call'.args.alpha.num
              /\ call'.args.alpha.num < call'.args.alpha.den]_vars

C9_Witness ==
    /\ alert = AlphaRangeMessage
    /\ alpha_raw = <<"5">>
    /\ Returned(parse(data_input))
    /\ call = NoCall
    /\ results = Hidden

====
